---- MODULE Spec2Model ----
(***************************************************************************)
(* Match units of bm_sim (modules/bm_sim/src/match_units.cpp): the exact,  *)
(* longest-prefix and ternary lookup engines with their versioned handles. *)
(*                                                                         *)
(* A 64-bit entry_handle_t is kept as the pair of its 32-bit halves,       *)
(* [hi, lo], standing for the value hi * 2^32 + lo.                        *)
(***************************************************************************)
EXTENDS Integers, Sequences, FiniteSets, TLC

\* ------------------------------------------------------------- bounds
\* capacity of the match unit (constructor argument `size`)
size == 2
\* cap on the per-slot version counter (a delete of a slot at the cap is not taken)
MaxVersion == 2
\* largest priority an entry is added with
MaxPriority == 2

\* ------------------------------------------------------ configuration
\* width of the canonical key in bytes (constructor argument)
nbytes_key == 2

Slots == 0 .. (size - 1)
Values == {"v1", "v2"}
NoValue == "none"
Variants == {"Exact", "LPM", "Ternary"}

\* MatchErrorCode
SUCCESS == "SUCCESS"
TABLE_FULL == "TABLE_FULL"
INVALID_HANDLE == "INVALID_HANDLE"
EXPIRED_HANDLE == "EXPIRED_HANDLE"
ERROR == "ERROR"
\* a failed assert: the process is gone
ABORTED == "ABORTED"

\* MatchKeyParam::Type
EXACT == "EXACT"
LPM == "LPM"
TERNARY == "TERNARY"
VALID == "VALID"

\* -------------------------------------------------------- handle codec
\* entry_handle_t as its two 32-bit halves
Handle(hi, lo) == [hi |-> hi, lo |-> lo]
\* conversion of an internal_handle_t (a slot index) to entry_handle_t
ToEntryHandle(i) == Handle(0, i)

\* #define HANDLE_VERSION(h) (h >> 32)
HANDLE_VERSION(h) == h.hi

\* the slot decoder the documentation describes: h & 0xffffffff
MaskedSlot(h) == h.lo

\* #define HANDLE_INTERNAL(h) (h && 0xffffffff): a logical AND, 1 when h is
\* non-zero and 0 when h is zero
HANDLE_INTERNAL(h) == IF (h.hi # 0 \/ h.lo # 0) /\ TRUE THEN 1 ELSE 0

\* #define HANDLE_SET(v, i) ((((uint64_t) v) << 32) | i), for i below 2^32
HANDLE_SET(v, i) == Handle(v, i)

\* 64-bit values a caller can hold: every version up to the cap, every slot
\* and one slot index beyond the capacity
AllHandles == { Handle(v, s) : v \in 0 .. MaxVersion, s \in 0 .. size }

\* the handles callers pass in
Handles == { h \in AllHandles : h.lo < size }

\* ------------------------------------------------------------ bytes
ByteVals == {0, 128, 192}

RECURSIVE BitAnd(_, _)
\* the C operator & on non-negative integers
BitAnd(a, b) ==
  IF a = 0 \/ b = 0 THEN 0
  ELSE (a % 2) * (b % 2) + 2 * BitAnd(a \div 2, b \div 2)

Pow2(n) == 2 ^ n

\* bit i (0 = most significant bit of byte 1) of a byte string
KeyBit(key, i) == (key[(i \div 8) + 1] \div Pow2(7 - (i % 8))) % 2

\* the first p bits of a byte string, as a sequence of bits
PrefixBits(key, p) == [i \in 1 .. p |-> KeyBit(key, i - 1)]

\* MatchKeyParam
Param(t, k, m, p) == [type |-> t, key |-> k, mask |-> m, prefix_length |-> p]
ExactParam(k) == Param(EXACT, k, << >>, 0)
ValidParam(k) == Param(VALID, k, << >>, 0)
LpmParam(k, p) == Param(LPM, k, << >>, p)
TernaryParam(k, m) == Param(TERNARY, k, m, 0)


\* --------------------------------------------------- key canonicalisation
RECURSIVE ValidBytes(_)
\* first loop of every add_entry: the bytes of the VALID parameters, in order
ValidBytes(mk) ==
  IF mk = << >> THEN << >>
  ELSE (IF Head(mk).type = VALID THEN Head(mk).key ELSE << >>)
       \o ValidBytes(Tail(mk))

RECURSIVE ExactRestBytes(_)
\* second loop of MatchUnitExact::add_entry
ExactRestBytes(mk) ==
  IF mk = << >> THEN << >>
  ELSE (IF Head(mk).type = EXACT THEN Head(mk).key ELSE << >>)
       \o ExactRestBytes(Tail(mk))

ExactNewKey(mk) == ValidBytes(mk) \o ExactRestBytes(mk)

\* the assertions of MatchUnitExact::add_entry
ExactWellFormed(mk) ==
  /\ \A i \in 1 .. Len(mk) : mk[i].type \in {EXACT, VALID}
  /\ Len(ExactNewKey(mk)) = nbytes_key

\* match keys the exact unit is given
ExactMatchKeys ==
  { mk \in
      { << ExactParam(<< a >>), ExactParam(<< 0 >>) >> : a \in {0, 128} }
      \cup { << ExactParam(<< 128 >>), ValidParam(<< 1 >>) >>,
             << ValidParam(<< 1 >>), ExactParam(<< 128 >>) >> } :
    ExactWellFormed(mk) }

\* keys build_key produces for a packet
LookupKeys ==
  { k \in { << 0, 0 >>, << 128, 0 >>, << 192, 0 >>, << 128, 128 >>,
            << 1, 128 >>, << 1, 0 >> } : Len(k) = nbytes_key }

\* ------------------------------------------------------------- state
VARIABLES
  variant,       \* which MatchUnit subclass this unit is
  ndebug,        \* whether the build defines NDEBUG (assert compiled out)
  handles,       \* HandleMgr: the set of live slots
  num_entries,   \* MatchUnitAbstract::num_entries
  entries,       \* std::vector<Entry>, by slot
  entries_map,   \* MatchUnitExact::entries_map (key -> slot)
  entries_trie,  \* MatchUnitLPM::entries_trie (prefix bits -> slot)
  op,            \* the operation last called
  ret,           \* what it returned
  out,           \* the handle add_entry wrote to *handle
  issued,        \* handle -> canonical key, for the handles add_entry returned
                 \* and delete_entry has not yet accepted
  deleted,       \* handles add_entry returned that delete_entry has accepted
  hist,          \* every handle add_entry has returned
  released,      \* the handles whose entry a delete_entry has removed
  last_deleted,  \* the handle delete_entry has just accepted, when the call
                 \* right before it was the add_entry that returned it
  arg,           \* the input a pure function is applied to
  res,           \* what it computed
  dpc,           \* where the writer is inside delete_entry
  dh,            \* the handle that delete_entry was called with
  rpc,           \* where the reader is inside its handle check
  rh,            \* the handle the reader checks
  rafter,        \* the reader began after delete_entry(rh) incremented the version
  rret,          \* what the reader's handle check returned
  bumped         \* the handles whose delete_entry has incremented the version

unit == << variant, ndebug, handles, num_entries, entries, entries_map, entries_trie >>
ghost == << issued, deleted, hist, released >>
pure == << arg, res >>
race == << dpc, dh, rpc, rh, rafter, rret, bumped >>
vars == << variant, ndebug, handles, num_entries, entries, entries_map, entries_trie,
           op, ret, out, issued, deleted, hist, released, last_deleted,
           arg, res, dpc, dh, rpc, rh, rafter, rret, bumped >>

NoHandle == Handle(0 - 1, 0 - 1)

\* Entry(): the default-constructed element of the entries vector
EmptyEntry ==
  [key |-> << >>, mask |-> << >>, prefix_length |-> 0, priority |-> 0,
   value |-> NoValue, version |-> 0]

\* MatchUnitLookup::empty_entry()
empty_entry == [found |-> FALSE, handle |-> NoHandle, value |-> NoValue]
MatchUnitLookup(h, v) == [found |-> TRUE, handle |-> h, value |-> v]

\* the unit after construction, before any call
Constructed ==
  /\ variant \in Variants
  /\ ndebug \in (IF variant = "LPM" THEN BOOLEAN ELSE {FALSE})
  /\ handles = {}
  /\ num_entries = 0
  /\ entries = [s \in Slots |-> EmptyEntry]
  /\ entries_map = << >>
  /\ entries_trie = << >>
  /\ op = "init"
  /\ ret = SUCCESS
  /\ out = NoHandle
  /\ issued = << >>
  /\ deleted = {}
  /\ hist = {}
  /\ released = {}
  /\ last_deleted = NoHandle
  /\ dpc = "idle"
  /\ dh = NoHandle
  /\ rpc = "idle"
  /\ rh = NoHandle
  /\ rafter = FALSE
  /\ rret = SUCCESS
  /\ bumped = {}

Init ==
  /\ Constructed
  /\ arg = << >>
  /\ res = << >>

\* ------------------------------------------------------- HandleMgr
\* slots get_handle may hand out: any slot that is not reserved
FreeSlots == Slots \ handles

\* HandleMgr::valid_handle
HandleMgrValid(i) == i \in handles

\* HandleMgr iteration order (begin() .. end()): ascending slot index
RECURSIVE IterationOrder(_)
IterationOrder(S) ==
  IF S = {} THEN << >>
  ELSE LET m == CHOOSE x \in S : \A y \in S : x <= y
       IN << m >> \o IterationOrder(S \ {m})

\* ------------------------------------------------- MatchUnitAbstract
\* > in the place of >=
GetAndSetStatusLate ==
  IF num_entries > size THEN TABLE_FULL
  ELSE IF FreeSlots = {} THEN ERROR
  ELSE SUCCESS

\* get_and_set_handle: its return code
GetAndSetStatus ==
  IF num_entries >= size THEN TABLE_FULL
  ELSE IF FreeSlots = {} THEN ERROR
  ELSE SUCCESS

\* unset_handle: its return code
UnsetStatus(i) == IF i \in handles THEN SUCCESS ELSE INVALID_HANDLE

\* num_entries after get_and_set_handle succeeded
IncEntries(n) == n + 1

\* num_entries-- left out
DecEntriesOmitted(n) == n

\* num_entries after unset_handle succeeded
DecEntries(n) == n - 1

valid_handle_(i) == HandleMgrValid(i)

valid_handle(h) == valid_handle_(HANDLE_INTERNAL(h))

\* entry.version += 1 left out
BumpVersionOmitted(v) == v

\* entry.version += 1 on a uint32_t; the counter is kept below MaxVersion by
\* the guards of the delete actions
BumpVersion(v) == v + 1

\* the handle check with its two tests in the other order
HandleCheckVersionFirst(h) ==
  LET handle_ == HANDLE_INTERNAL(h) IN
  IF HANDLE_VERSION(h) # entries[handle_].version THEN EXPIRED_HANDLE
  ELSE IF ~ valid_handle_(handle_) THEN INVALID_HANDLE
  ELSE SUCCESS

\* the handle check of delete_entry, modify_entry and get_value where it goes
\* through valid_handle_
HandleCheck_(h) ==
  LET handle_ == HANDLE_INTERNAL(h) IN
  IF ~ valid_handle_(handle_) THEN INVALID_HANDLE
  ELSE IF HANDLE_VERSION(h) # entries[handle_].version THEN EXPIRED_HANDLE
  ELSE SUCCESS

\* the same check where it goes through the public valid_handle
\* (MatchUnitExact::get_value, MatchUnitTernary::modify_entry)
HandleCheckPublic(h) ==
  LET handle_ == HANDLE_INTERNAL(h) IN
  IF ~ valid_handle(ToEntryHandle(handle_)) THEN INVALID_HANDLE
  ELSE IF HANDLE_VERSION(h) # entries[handle_].version THEN EXPIRED_HANDLE
  ELSE SUCCESS

delete_status(var, h) == HandleCheck_(h)

modify_status(var, h) ==
  IF var = "Ternary" THEN HandleCheckPublic(h) ELSE HandleCheck_(h)

get_value_status(var, h) ==
  IF var = "Exact" THEN HandleCheckPublic(h) ELSE HandleCheck_(h)

\* what get_value writes to *value
get_value_result(var, h) ==
  IF get_value_status(var, h) = SUCCESS
  THEN entries[HANDLE_INTERNAL(h)].value ELSE NoValue

\* bookkeeping of the handles given out and taken back
NoteAdd(h, key) ==
  /\ issued' = (h :> key) @@ issued
  /\ hist' = hist \cup {h}
  /\ UNCHANGED << deleted, released >>

\* delete_entry(h) returned SUCCESS after removing the entry of slot i, which
\* was at version v
NoteDelete(h, i, v) ==
  /\ issued' = [x \in DOMAIN issued \ {h} |-> issued[x]]
  /\ deleted' = IF h \in DOMAIN issued THEN deleted \cup {h} ELSE deleted
  /\ released' = released \cup {HANDLE_SET(v, i)}
  /\ UNCHANGED hist

\* a call of the single caller returns status r and writes h to *handle
Called(o, r, h) == op' = o /\ ret' = r /\ out' = h /\ UNCHANGED << pure, race >>

Returns(o, r, h) == Called(o, r, h) /\ last_deleted' = NoHandle

\* delete_entry(h) returns r
ReturnsDeleted(r, h) ==
  /\ Called("delete_entry", r, NoHandle)
  /\ last_deleted' = IF r = SUCCESS /\ op = "add_entry" /\ ret = SUCCESS /\ out = h
                     THEN h ELSE NoHandle

\* the process is alive: no assert has failed
Running == ret # ABORTED

\* ------------------------------------------------------ MatchUnitExact
ExactLookupKey(key) ==
  IF key \notin DOMAIN entries_map THEN empty_entry
  ELSE MatchUnitLookup(ToEntryHandle(entries_map[key]),
                       entries[entries_map[key]].value)

\* the version not carried over into the new Entry
ExactEntryFresh(key, value, version) ==
  [key |-> key, mask |-> << >>, prefix_length |-> 0, priority |-> 0,
   value |-> value, version |-> 0]

\* Entry(key, value, version) of the exact unit
ExactEntry(key, value, version) ==
  [key |-> key, mask |-> << >>, prefix_length |-> 0, priority |-> 0,
   value |-> value, version |-> version]

\* entries_map[new_key] = handle_
MapInsert(map, key, i) == (key :> i) @@ map

\* entries_map.erase(key)
MapErase(map, key) == [k \in DOMAIN map \ {key} |-> map[k]]

ExactAddEntry(mk, value) ==
  /\ Running
  /\ variant = "Exact"
  /\ LET new_key == ExactNewKey(mk)
         status == GetAndSetStatus
     IN IF status # SUCCESS
        THEN /\ Returns("add_entry", status, NoHandle)
             /\ UNCHANGED << unit, ghost >>
        ELSE \E handle_ \in FreeSlots :
               LET version == entries[handle_].version
                   h == HANDLE_SET(version, handle_)
               IN /\ handles' = handles \cup {handle_}
                  /\ num_entries' = IncEntries(num_entries)
                  /\ entries_map' = MapInsert(entries_map, new_key, handle_)
                  /\ entries' = [entries EXCEPT
                                   ![handle_] = ExactEntry(new_key, value, version)]
                  /\ Returns("add_entry", SUCCESS, h)
                  /\ NoteAdd(h, new_key)
                  /\ UNCHANGED << variant, ndebug, entries_trie >>

ExactDeleteEntry(h) ==
  /\ Running
  /\ variant = "Exact"
  /\ LET handle_ == HANDLE_INTERNAL(h)
         status == delete_status("Exact", h)
     IN IF status # SUCCESS
        THEN /\ Returns("delete_entry", status, NoHandle)
             /\ UNCHANGED << unit, ghost >>
        ELSE /\ entries[handle_].version < MaxVersion
             /\ entries' = [entries EXCEPT
                   ![handle_].version = BumpVersion(entries[handle_].version)]
             /\ entries_map' = MapErase(entries_map, entries[handle_].key)
             /\ handles' = handles \ {handle_}
             /\ num_entries' = DecEntries(num_entries)
             /\ ReturnsDeleted(UnsetStatus(handle_), h)
             /\ NoteDelete(h, handle_, entries[handle_].version)
             /\ UNCHANGED << variant, ndebug, entries_trie >>

ExactModifyEntry(h, value) ==
  /\ Running
  /\ variant = "Exact"
  /\ LET handle_ == HANDLE_INTERNAL(h)
         status == modify_status("Exact", h)
     IN /\ Returns("modify_entry", status, NoHandle)
        /\ entries' = IF status = SUCCESS
                      THEN [entries EXCEPT ![handle_].value = value]
                      ELSE entries
        /\ UNCHANGED << variant, ndebug, handles, num_entries, entries_map,
                        entries_trie, ghost >>

ExactGetValue(h) ==
  /\ Running
  /\ variant = "Exact"
  /\ Returns("get_value", get_value_status("Exact", h), NoHandle)
  /\ UNCHANGED << unit, ghost >>

ExactLookup(key) ==
  /\ Running
  /\ variant = "Exact"
  /\ Returns("lookup",
             IF ExactLookupKey(key).found THEN "HIT" ELSE "MISS", NoHandle)
  /\ UNCHANGED << unit, ghost >>

\* -------------------------------------------------------- MatchUnitLPM
RECURSIVE LPMRestBytes(_)
\* second loop of MatchUnitLPM::add_entry: the bytes appended in the loop
LPMRestBytes(mk) ==
  IF mk = << >> THEN << >>
  ELSE (IF Head(mk).type = EXACT THEN Head(mk).key ELSE << >>)
       \o LPMRestBytes(Tail(mk))

\* what one EXACT parameter adds to prefix_length: param.key.size()
ExactContribution(param) == Len(param.key)

RECURSIVE LPMLoopPrefixLength(_)
\* second loop of MatchUnitLPM::add_entry: prefix_length when the loop ends
LPMLoopPrefixLength(mk) ==
  IF mk = << >> THEN 0
  ELSE (IF Head(mk).type = EXACT THEN ExactContribution(Head(mk)) ELSE 0)
       + LPMLoopPrefixLength(Tail(mk))

LPMParams(mk) == { i \in 1 .. Len(mk) : mk[i].type = LPM }
lpm_param(mk) == mk[CHOOSE i \in LPMParams(mk) : TRUE]

\* the key with the LPM bytes put before the bytes of the loop
LPMNewKeyLpmFirst(mk) == ValidBytes(mk) \o lpm_param(mk).key \o LPMRestBytes(mk)

LPMNewKey(mk) == ValidBytes(mk) \o LPMRestBytes(mk) \o lpm_param(mk).key

LPMPrefixLength(mk) == LPMLoopPrefixLength(mk) + lpm_param(mk).prefix_length

\* the assertions of MatchUnitLPM::add_entry
LPMWellFormed(mk) ==
  /\ \A i \in 1 .. Len(mk) : mk[i].type \in {EXACT, VALID, LPM}
  /\ Cardinality(LPMParams(mk)) = 1
  /\ Len(LPMNewKey(mk)) = nbytes_key

\* match keys the LPM unit is given
LPMMatchKeys ==
  { mk \in
      { << LpmParam(<< 192, 0 >>, 1) >>,
        << LpmParam(<< 192, 0 >>, 2) >>,
        << ExactParam(<< 128 >>), LpmParam(<< 128 >>, 1) >> } :
    LPMWellFormed(mk) }

LPMEntry(key, prefix_length, value, version) ==
  [key |-> key, mask |-> << >>, prefix_length |-> prefix_length,
   priority |-> 0, value |-> value, version |-> version]

\* LPMTrie::insert_prefix: binds the node at depth prefix_length on the path
\* of key to the slot
insert_prefix(trie, key, prefix_length, i) ==
  (PrefixBits(key, prefix_length) :> i) @@ trie

\* LPMTrie::delete_prefix: whether the binding was there
has_prefix(trie, key, prefix_length) ==
  PrefixBits(key, prefix_length) \in DOMAIN trie

\* LPMTrie::delete_prefix: the trie without the binding
delete_prefix(trie, key, prefix_length) ==
  [b \in DOMAIN trie \ {PrefixBits(key, prefix_length)} |-> trie[b]]

NoSlot == 0 - 1

\* whether the node of a bound prefix lies on the path of key
OnPath(bits, key) ==
  /\ Len(bits) <= 8 * Len(key)
  /\ \A i \in 1 .. Len(bits) : bits[i] = KeyBit(key, i - 1)

\* LPMTrie::lookup: the walk down the path of key ends with the deepest bound
\* node on that path, or with nothing when no node on the path is bound
TrieWalk(trie, key) ==
  LET bound == { b \in DOMAIN trie : OnPath(b, key) }
  IN IF bound = {} THEN NoSlot
     ELSE trie[CHOOSE b \in bound : \A c \in bound : Len(c) <= Len(b)]

trie_lookup(trie, key) == TrieWalk(trie, key)

LPMLookupKey(key) ==
  LET handle == trie_lookup(entries_trie, key)
  IN IF handle # NoSlot
     THEN MatchUnitLookup(ToEntryHandle(handle), entries[handle].value)
     ELSE empty_entry

LPMAddEntry(mk, value) ==
  /\ Running
  /\ variant = "LPM"
  /\ LET new_key == LPMNewKey(mk)
         prefix_length == LPMPrefixLength(mk)
         status == GetAndSetStatus
     IN IF status # SUCCESS
        THEN /\ Returns("add_entry", status, NoHandle)
             /\ UNCHANGED << unit, ghost >>
        ELSE \E handle_ \in FreeSlots :
               LET version == entries[handle_].version
                   h == HANDLE_SET(version, handle_)
               IN /\ handles' = handles \cup {handle_}
                  /\ num_entries' = IncEntries(num_entries)
                  /\ entries_trie' = insert_prefix(entries_trie, new_key,
                                                   prefix_length, handle_)
                  /\ entries' = [entries EXCEPT ![handle_] =
                         LPMEntry(new_key, prefix_length, value, version)]
                  /\ Returns("add_entry", SUCCESS, h)
                  /\ NoteAdd(h, new_key)
                  /\ UNCHANGED << variant, ndebug, entries_map >>

\* with NDEBUG the assert and the delete_prefix call inside it are compiled
\* out; without it a delete_prefix that finds no binding aborts the process
LPMDeleteEntry(h) ==
  /\ Running
  /\ variant = "LPM"
  /\ LET handle_ == HANDLE_INTERNAL(h)
         status == delete_status("LPM", h)
         entry == entries[handle_]
     IN IF status # SUCCESS
        THEN /\ Returns("delete_entry", status, NoHandle)
             /\ UNCHANGED << unit, ghost >>
        ELSE /\ entry.version < MaxVersion
             /\ entries' = [entries EXCEPT
                   ![handle_].version = BumpVersion(entry.version)]
             /\ IF ndebug
                THEN /\ UNCHANGED entries_trie
                     /\ handles' = handles \ {handle_}
                     /\ num_entries' = DecEntries(num_entries)
                     /\ ReturnsDeleted(UnsetStatus(handle_), h)
                     /\ NoteDelete(h, handle_, entries[handle_].version)
                ELSE IF has_prefix(entries_trie, entry.key, entry.prefix_length)
                THEN /\ entries_trie' = delete_prefix(entries_trie, entry.key,
                                                      entry.prefix_length)
                     /\ handles' = handles \ {handle_}
                     /\ num_entries' = DecEntries(num_entries)
                     /\ ReturnsDeleted(UnsetStatus(handle_), h)
                     /\ NoteDelete(h, handle_, entries[handle_].version)
                ELSE /\ Returns("delete_entry", ABORTED, NoHandle)
                     /\ UNCHANGED << entries_trie, handles, num_entries, ghost >>
             /\ UNCHANGED << variant, ndebug, entries_map >>

LPMModifyEntry(h, value) ==
  /\ Running
  /\ variant = "LPM"
  /\ LET handle_ == HANDLE_INTERNAL(h)
         status == modify_status("LPM", h)
     IN /\ Returns("modify_entry", status, NoHandle)
        /\ entries' = IF status = SUCCESS
                      THEN [entries EXCEPT ![handle_].value = value]
                      ELSE entries
        /\ UNCHANGED << variant, ndebug, handles, num_entries, entries_map,
                        entries_trie, ghost >>

LPMGetValue(h) ==
  /\ Running
  /\ variant = "LPM"
  /\ Returns("get_value", get_value_status("LPM", h), NoHandle)
  /\ UNCHANGED << unit, ghost >>

LPMLookup(key) ==
  /\ Running
  /\ variant = "LPM"
  /\ Returns("lookup",
             IF LPMLookupKey(key).found THEN "HIT" ELSE "MISS", NoHandle)
  /\ UNCHANGED << unit, ghost >>

\* ---------------------------------------------------- MatchUnitTernary
\* create_mask_from_pref_len: byte i (from 0) of the mask of a size-byte field
PrefLenMaskByte(prefix_length, i) ==
  IF i < prefix_length \div 8 THEN 255
  ELSE IF i = prefix_length \div 8 /\ prefix_length % 8 # 0
       THEN (255 * Pow2(8 - (prefix_length % 8))) % 256
       ELSE 0

create_mask_from_pref_len(prefix_length, n) ==
  [i \in 1 .. n |-> PrefLenMaskByte(prefix_length, i - 1)]

RECURSIVE TernaryValidMask(_)
\* first loop of MatchUnitTernary::add_entry: one 0xff per VALID parameter
TernaryValidMask(mk) ==
  IF mk = << >> THEN << >>
  ELSE (IF Head(mk).type = VALID THEN << 255 >> ELSE << >>)
       \o TernaryValidMask(Tail(mk))

RECURSIVE TernaryRestBytes(_)
\* second loop of MatchUnitTernary::add_entry: the key bytes
TernaryRestBytes(mk) ==
  IF mk = << >> THEN << >>
  ELSE (IF Head(mk).type \in {EXACT, LPM, TERNARY} THEN Head(mk).key
        ELSE << >>)
       \o TernaryRestBytes(Tail(mk))

RECURSIVE TernaryRestMask(_)
\* second loop of MatchUnitTernary::add_entry: the mask bytes
TernaryRestMask(mk) ==
  IF mk = << >> THEN << >>
  ELSE (CASE Head(mk).type = EXACT -> [i \in 1 .. Len(Head(mk).key) |-> 255]
          [] Head(mk).type = LPM ->
               create_mask_from_pref_len(Head(mk).prefix_length,
                                         Len(Head(mk).key))
          [] Head(mk).type = TERNARY -> Head(mk).mask
          [] OTHER -> << >>)
       \o TernaryRestMask(Tail(mk))

TernaryNewKey(mk) == ValidBytes(mk) \o TernaryRestBytes(mk)
TernaryNewMask(mk) == TernaryValidMask(mk) \o TernaryRestMask(mk)

\* the assertions of MatchUnitTernary::add_entry
TernaryWellFormed(mk) ==
  /\ \A i \in 1 .. Len(mk) : mk[i].type \in {EXACT, VALID, LPM, TERNARY}
  /\ Len(TernaryNewKey(mk)) = nbytes_key
  /\ Len(TernaryNewMask(mk)) = nbytes_key

\* match keys the ternary unit is given
TernaryMatchKeys ==
  { mk \in
      { << TernaryParam(<< 128, 0 >>, << 192, 0 >>) >>,
        << TernaryParam(<< 128, 0 >>, << 128, 0 >>) >> } :
    TernaryWellFormed(mk) }

Priorities == 0 .. MaxPriority

TernaryEntry(key, mask, priority, value, version) ==
  [key |-> key, mask |-> mask, prefix_length |-> 0, priority |-> priority,
   value |-> value, version |-> version]

\* the byte loop of lookup_key
TernaryMatch(entry, key) ==
  \A byte_index \in 0 .. (nbytes_key - 1) :
    entry.key[byte_index + 1]
      = BitAnd(key[byte_index + 1], entry.mask[byte_index + 1])

\* int max_priority = 0
InitialMaxPriority == 0

\* < in the place of <=
SkippedLax(priority, max_priority) == priority < max_priority

\* if(entry->priority <= max_priority) continue
Skipped(priority, max_priority) == priority <= max_priority

RECURSIVE TernaryScan(_, _, _, _)
\* the loop of lookup_key over the live slots: max_handle when it ends
TernaryScan(order, key, max_priority, max_handle) ==
  IF order = << >> THEN max_handle
  ELSE LET it == Head(order)
           entry == entries[it]
       IN IF Skipped(entry.priority, max_priority)
          THEN TernaryScan(Tail(order), key, max_priority, max_handle)
          ELSE IF TernaryMatch(entry, key)
          THEN TernaryScan(Tail(order), key, entry.priority, it)
          ELSE TernaryScan(Tail(order), key, max_priority, max_handle)

TernaryLookupKey(key) ==
  LET max_handle == TernaryScan(IterationOrder(handles), key,
                                InitialMaxPriority, NoSlot)
  IN IF max_handle # NoSlot
     THEN MatchUnitLookup(ToEntryHandle(max_handle), entries[max_handle].value)
     ELSE empty_entry

TernaryAddEntry(mk, value, priority) ==
  /\ Running
  /\ variant = "Ternary"
  /\ LET new_key == TernaryNewKey(mk)
         new_mask == TernaryNewMask(mk)
         status == GetAndSetStatus
     IN IF status # SUCCESS
        THEN /\ Returns("add_entry", status, NoHandle)
             /\ UNCHANGED << unit, ghost >>
        ELSE \E handle_ \in FreeSlots :
               LET version == entries[handle_].version
                   h == HANDLE_SET(version, handle_)
               IN /\ handles' = handles \cup {handle_}
                  /\ num_entries' = IncEntries(num_entries)
                  /\ entries' = [entries EXCEPT ![handle_] =
                         TernaryEntry(new_key, new_mask, priority, value,
                                      version)]
                  /\ Returns("add_entry", SUCCESS, h)
                  /\ NoteAdd(h, new_key)
                  /\ UNCHANGED << variant, ndebug, entries_map, entries_trie >>

TernaryDeleteEntry(h) ==
  /\ Running
  /\ variant = "Ternary"
  /\ LET handle_ == HANDLE_INTERNAL(h)
         status == delete_status("Ternary", h)
     IN IF status # SUCCESS
        THEN /\ Returns("delete_entry", status, NoHandle)
             /\ UNCHANGED << unit, ghost >>
        ELSE /\ entries[handle_].version < MaxVersion
             /\ entries' = [entries EXCEPT
                   ![handle_].version = BumpVersion(entries[handle_].version)]
             /\ handles' = handles \ {handle_}
             /\ num_entries' = DecEntries(num_entries)
             /\ ReturnsDeleted(UnsetStatus(handle_), h)
             /\ NoteDelete(h, handle_, entries[handle_].version)
             /\ UNCHANGED << variant, ndebug, entries_map, entries_trie >>

TernaryModifyEntry(h, value) ==
  /\ Running
  /\ variant = "Ternary"
  /\ LET handle_ == HANDLE_INTERNAL(h)
         status == modify_status("Ternary", h)
     IN /\ Returns("modify_entry", status, NoHandle)
        /\ entries' = IF status = SUCCESS
                      THEN [entries EXCEPT ![handle_].value = value]
                      ELSE entries
        /\ UNCHANGED << variant, ndebug, handles, num_entries, entries_map,
                        entries_trie, ghost >>

TernaryGetValue(h) ==
  /\ Running
  /\ variant = "Ternary"
  /\ Returns("get_value", get_value_status("Ternary", h), NoHandle)
  /\ UNCHANGED << unit, ghost >>

TernaryLookup(key) ==
  /\ Running
  /\ variant = "Ternary"
  /\ Returns("lookup",
             IF TernaryLookupKey(key).found THEN "HIT" ELSE "MISS", NoHandle)
  /\ UNCHANGED << unit, ghost >>

\* lookup_key of the unit's own variant
lookup_key(key) ==
  CASE variant = "Exact" -> ExactLookupKey(key)
    [] variant = "LPM" -> LPMLookupKey(key)
    [] variant = "Ternary" -> TernaryLookupKey(key)

Next ==
  \/ \E mk \in ExactMatchKeys, v \in Values : ExactAddEntry(mk, v)
  \/ \E h \in Handles : ExactDeleteEntry(h)
  \/ \E h \in Handles, v \in Values : ExactModifyEntry(h, v)
  \/ \E h \in Handles : ExactGetValue(h)
  \/ \E k \in LookupKeys : ExactLookup(k)
  \/ \E mk \in LPMMatchKeys, v \in Values : LPMAddEntry(mk, v)
  \/ \E h \in Handles : LPMDeleteEntry(h)
  \/ \E h \in Handles, v \in Values : LPMModifyEntry(h, v)
  \/ \E h \in Handles : LPMGetValue(h)
  \/ \E k \in LookupKeys : LPMLookup(k)
  \/ \E mk \in TernaryMatchKeys, v \in Values, p \in Priorities :
       TernaryAddEntry(mk, v, p)
  \/ \E h \in Handles : TernaryDeleteEntry(h)
  \/ \E h \in Handles, v \in Values : TernaryModifyEntry(h, v)
  \/ \E h \in Handles : TernaryGetValue(h)
  \/ \E k \in LookupKeys : TernaryLookup(k)

Spec == Init /\ [][Next]_vars

\* ------------------------------------------------------------ properties
Refused == {INVALID_HANDLE, EXPIRED_HANDLE}

\* the slot whose entry a lookup result points to
ResultSlot(r) == MaskedSlot(r.handle)

\* C1: once delete_entry(h) has returned SUCCESS for a handle h that add_entry
\* returned, get_value(h), modify_entry(h, v) and delete_entry(h) return
\* INVALID_HANDLE or EXPIRED_HANDLE in every later state, whatever was added,
\* modified or deleted since, also when the slot of h is occupied again.
C1_DeletedHandleRefused ==
  \A h \in deleted :
    /\ get_value_status(variant, h) \in Refused
    /\ modify_status(variant, h) \in Refused
    /\ delete_status(variant, h) \in Refused

\* a deleted handle whose slot is occupied again has just been refused as expired
C1_Witness ==
  /\ op = "get_value"
  /\ ret = EXPIRED_HANDLE
  /\ \E h \in deleted :
       /\ MaskedSlot(h) \in handles
       /\ get_value_status(variant, h) = EXPIRED_HANDLE

\* the result the documentation gives for a hit on the entry of handle h
DocumentedHit(h) == MatchUnitLookup(h, entries[MaskedSlot(h)].value)

\* the index leads from the key h was added with to the slot of h
Indexed(h) ==
  /\ issued[h] \in DOMAIN entries_map
  /\ entries_map[issued[h]] = MaskedSlot(h)

\* C2: exact unit: for every handle h that add_entry returned and that has
\* not been deleted (taken here where the map still leads to the slot of h),
\* lookup of the canonical key h was added with returns (h, stored value),
\* with h the very 64-bit value add_entry issued; lookup of a key no live
\* entry stores returns the empty result.
C2_ExactLookupReturnsIssuedHandle ==
  variant = "Exact" =>
    /\ \A h \in DOMAIN issued :
         Indexed(h) => ExactLookupKey(issued[h]) = DocumentedHit(h)
    /\ \A k \in LookupKeys :
         (\A s \in handles : entries[s].key # k)
           => ExactLookupKey(k) = empty_entry

\* the live slots whose stored prefix agrees with key k
Agreeing(k) ==
  { s \in handles :
      OnPath(PrefixBits(entries[s].key, entries[s].prefix_length), k) }

\* C3: LPM unit (in a build that keeps its assertions): for every lookup key
\* k, lookup returns a live entry whose prefix agrees with k and whose prefix
\* length is the largest among the live entries agreeing with k, and it
\* returns empty iff no live entry agrees with k.
C3_LPMLongestPrefix ==
  (variant = "LPM" /\ ~ ndebug /\ Running) =>
    \A k \in LookupKeys :
      LET r == LPMLookupKey(k) IN
        /\ r.found <=> Agreeing(k) # {}
        /\ r.found =>
             /\ ResultSlot(r) \in Agreeing(k)
             /\ \A s \in Agreeing(k) :
                  entries[s].prefix_length
                    <= entries[ResultSlot(r)].prefix_length

\* the live slots whose entry matches key k byte by byte under its mask
Matching(k) == { s \in handles : TernaryMatch(entries[s], k) }

\* the place of live slot s in the allocator's iteration order
Position(s) ==
  CHOOSE i \in 1 .. Len(IterationOrder(handles)) :
    IterationOrder(handles)[i] = s

\* C4: ternary unit: the entry lookup_key(k) returns, if any, matches k, no
\* live matching entry has a greater priority, and among the live matching
\* entries of that priority it is the first in iteration order.
C4_TernaryGreatestPriorityFirst ==
  variant = "Ternary" =>
    \A k \in LookupKeys :
      LET r == TernaryLookupKey(k) IN
        r.found =>
          /\ ResultSlot(r) \in Matching(k)
          /\ \A t \in Matching(k) :
               /\ entries[t].priority <= entries[ResultSlot(r)].priority
               /\ entries[t].priority = entries[ResultSlot(r)].priority
                    => Position(ResultSlot(r)) <= Position(t)

\* a lookup has hit on a key that two live entries of equal priority match,
\* one of which is returned
C4_Witness ==
  /\ variant = "Ternary"
  /\ op = "lookup"
  /\ ret = "HIT"
  /\ \E k \in LookupKeys :
       /\ TernaryLookupKey(k).found
       /\ \E s, t \in Matching(k) :
            /\ s # t
            /\ entries[s].priority = entries[t].priority
            /\ ResultSlot(TernaryLookupKey(k)) \in {s, t}

\* what the documentation says valid_handle answers
DocumentedValid(h) ==
  /\ MaskedSlot(h) \in handles
  /\ entries[MaskedSlot(h)].version = HANDLE_VERSION(h)

\* C5: for every 64-bit value h, valid_handle(h) is true iff slot
\* h & 0xffffffff is live and its version equals h >> 32.
C5_ValidHandleIffLiveAndCurrent ==
  \A h \in AllHandles : valid_handle(h) <=> DocumentedValid(h)

\* the outcome of the documented handle check
DocumentedCheck(h) ==
  IF MaskedSlot(h) \notin handles THEN INVALID_HANDLE
  ELSE IF entries[MaskedSlot(h)].version # HANDLE_VERSION(h)
  THEN EXPIRED_HANDLE
  ELSE SUCCESS

\* C6: delete_entry, modify_entry and get_value of every variant answer a
\* handle h with the outcome of the documented check on slot h & 0xffffffff:
\* INVALID_HANDLE when it is not live, EXPIRED_HANDLE when its version is not
\* h >> 32, and SUCCESS otherwise.
C6_UniformHandleCheck ==
  \A h \in AllHandles :
    /\ delete_status(variant, h) = DocumentedCheck(h)
    /\ modify_status(variant, h) = DocumentedCheck(h)
    /\ get_value_status(variant, h) = DocumentedCheck(h)

\* C7: (taken for the ternary unit, whose only index is the set of live
\* slots) when delete_entry(h) returns SUCCESS for a handle h that add_entry
\* issued, no lookup afterwards returns the entry in the slot h was issued
\* for, and every lookup that returned another entry before the call returns
\* the same result after it.
C7_DeleteHidesOnlyItsEntry ==
  [][ \A h \in DOMAIN issued :
        (TernaryDeleteEntry(h) /\ ret' = SUCCESS) =>
          \A k \in LookupKeys :
            /\ ~ (lookup_key(k)'.found
                  /\ ResultSlot(lookup_key(k)') = MaskedSlot(h))
            /\ (lookup_key(k).found
                /\ ResultSlot(lookup_key(k)) # MaskedSlot(h))
                 => lookup_key(k)' = lookup_key(k) ]_vars

\* the handles add_entry returned whose entry has not been deleted
Outstanding == hist \ released

\* C8: after any sequence of add_entry and delete_entry calls, num_entries is
\* the number of handles add_entry returned whose entry has not been deleted,
\* which is the number of live slots, and it is at most the capacity.
C8_NumEntriesCountsLiveHandles ==
  /\ num_entries = Cardinality(Outstanding)
  /\ num_entries = Cardinality(handles)
  /\ num_entries <= size

\* entries were added and deleted, and a delete has just succeeded
C8_Witness ==
  /\ op = "delete_entry"
  /\ ret = SUCCESS
  /\ num_entries = 1
  /\ Cardinality(hist) > size

\* C9: add_entry on a unit that holds capacity live entries returns
\* TABLE_FULL and changes nothing of the unit; on a unit with fewer live
\* entries it returns SUCCESS and adds one live entry.
C9_TableFull ==
  [][ op' = "add_entry" =>
        /\ Cardinality(handles) >= size
             => (ret' = TABLE_FULL /\ UNCHANGED unit)
        /\ Cardinality(handles) < size
             => /\ ret' = SUCCESS
                /\ Cardinality(handles') = Cardinality(handles) + 1 ]_vars

\* add_entry has just been refused on a unit that was full, had an entry
\* deleted and was filled again
C9_Witness ==
  /\ op = "add_entry"
  /\ ret = TABLE_FULL
  /\ Cardinality(hist) > size

\* C10: a handle add_entry issues for a slot has a version greater than
\* every handle issued for that slot before, and no operation decreases the
\* version stored in a slot.
C10_VersionsIncrease ==
  [][ /\ \A s \in Slots : entries'[s].version >= entries[s].version
      /\ (op' = "add_entry" /\ ret' = SUCCESS) =>
           \A h1 \in hist :
             MaskedSlot(h1) = MaskedSlot(out')
               => HANDLE_VERSION(out') > HANDLE_VERSION(h1) ]_vars

\* a slot has been issued twice, the second time just now
C10_Witness ==
  /\ op = "add_entry"
  /\ ret = SUCCESS
  /\ \E h1 \in hist : h1 # out /\ MaskedSlot(h1) = MaskedSlot(out)

\* C11: for every handle h that add_entry issued and whose entry has not been
\* deleted, and every value v, modify_entry(h, v) returns SUCCESS, the
\* get_value(h) right after it returns SUCCESS and v, and a lookup that hits
\* the entry of h afterwards returns v; in all three variants.
C11_ModifyThenGetValue ==
  [][ \A h \in Outstanding, v \in Values :
        (ExactModifyEntry(h, v) \/ LPMModifyEntry(h, v)
           \/ TernaryModifyEntry(h, v)) =>
          /\ ret' = SUCCESS
          /\ get_value_status(variant, h)' = SUCCESS
          /\ get_value_result(variant, h)' = v
          /\ \A k \in LookupKeys :
               (lookup_key(k)'.found
                /\ ResultSlot(lookup_key(k)') = MaskedSlot(h))
                 => lookup_key(k)'.value = v ]_vars

\* ------------------------------------------------- the handle codec alone
MaxCodec == 9

\* handles to run through the codec: every pair of a high and a low half
CodecHandles == { Handle(v, s) : v \in 0 .. MaxCodec, s \in 0 .. MaxCodec }

CodecInit ==
  /\ Constructed
  /\ variant = "Exact"
  /\ arg \in CodecHandles
  /\ res = << >>

\* HANDLE_SET(HANDLE_VERSION(h), HANDLE_INTERNAL(h)) for h = arg
DecodeEncode ==
  /\ op = "init"
  /\ res' = HANDLE_SET(HANDLE_VERSION(arg), HANDLE_INTERNAL(arg))
  /\ op' = "decode_encode"
  /\ UNCHANGED << unit, ghost, race, arg, ret, out, last_deleted >>

\* HANDLE_VERSION and HANDLE_INTERNAL of HANDLE_SET(v, s) for (v, s) = arg
EncodeDecode ==
  /\ op = "init"
  /\ LET h == HANDLE_SET(arg.hi, arg.lo)
     IN res' = [version |-> HANDLE_VERSION(h), slot |-> HANDLE_INTERNAL(h)]
  /\ op' = "encode_decode"
  /\ UNCHANGED << unit, ghost, race, arg, ret, out, last_deleted >>

CodecNext == DecodeEncode \/ EncodeDecode

SpecCodec == CodecInit /\ [][CodecNext]_vars

\* C12: the codec round-trips: encoding the version and the slot that the
\* program's decoders (HANDLE_VERSION, HANDLE_INTERNAL) take from a handle h
\* gives h back, and decoding HANDLE_SET(v, s) gives v and s.
C12_CodecRoundTrip ==
  /\ op = "decode_encode" => res = arg
  /\ op = "encode_decode" => (res.version = arg.hi /\ res.slot = arg.lo)

\* C13 as written: when add_entry returns h1 and the delete_entry(h1) called
\* right after it succeeds, get_value(h1) returns EXPIRED_HANDLE, and an
\* add_entry that follows returns a handle of a greater version than h1.
C13_StaleHandleExpired ==
  [][ /\ last_deleted' # NoHandle
          => get_value_status(variant, last_deleted)' = EXPIRED_HANDLE
      /\ (last_deleted # NoHandle /\ op' = "add_entry" /\ ret' = SUCCESS)
          => HANDLE_VERSION(out') > HANDLE_VERSION(last_deleted) ]_vars

\* C13 amended: when add_entry returns h1 and the delete_entry(h1) called
\* right after it succeeds, get_value(h1) returns INVALID_HANDLE (the slot is
\* no longer live), and an add_entry that follows and is given the slot that
\* delete_entry released returns a handle of a greater version than h1.
C13_StaleHandleInvalid ==
  [][ /\ last_deleted' # NoHandle
          => get_value_status(variant, last_deleted)' = INVALID_HANDLE
      /\ (last_deleted # NoHandle /\ op' = "add_entry" /\ ret' = SUCCESS
           /\ MaskedSlot(out') = HANDLE_INTERNAL(last_deleted))
          => HANDLE_VERSION(out') > HANDLE_VERSION(last_deleted) ]_vars

\* a handle was issued by an add_entry that reused a slot, and the
\* delete_entry called right after it has accepted it
C13_Witness ==
  /\ op = "delete_entry"
  /\ ret = SUCCESS
  /\ last_deleted # NoHandle
  /\ HANDLE_VERSION(last_deleted) > 0

\* C15: in the exact unit, in every reachable state (also after two add_entry
\* calls with the same key), entries_map leads from the key of every live
\* slot to that slot, and every key in entries_map leads to a live slot that
\* stores this key.
C15_ExactMapMatchesLiveSlots ==
  variant = "Exact" =>
    /\ \A s \in handles :
         /\ entries[s].key \in DOMAIN entries_map
         /\ entries_map[entries[s].key] = s
    /\ \A k \in DOMAIN entries_map :
         /\ entries_map[k] \in handles
         /\ entries[entries_map[k]].key = k

\* C16: in the LPM unit, in every reachable state, the trie binds the
\* (key, prefix_length) of every live slot to that slot and binds nothing to
\* a slot that is not live, so that the assertion of delete_entry, that
\* delete_prefix finds the binding, never fails.
C16_TrieMatchesLiveSlots ==
  (variant = "LPM" /\ ~ ndebug) =>
    /\ Running
    /\ \A s \in handles :
         /\ has_prefix(entries_trie, entries[s].key, entries[s].prefix_length)
         /\ entries_trie[PrefixBits(entries[s].key, entries[s].prefix_length)] = s
    /\ \A b \in DOMAIN entries_trie : entries_trie[b] \in handles

\* C17: the prefix length that LPM add_entry stores and inserts into the trie
\* is 8 times the number of bytes emitted before the LPM bytes plus the LPM
\* parameter's prefix_length, so that a lookup returns the entry only for
\* keys that equal it on every leading byte.
C17_LPMPrefixLengthInBits ==
  [][ \A mk \in LPMMatchKeys, v \in Values :
        (LPMAddEntry(mk, v) /\ ret' = SUCCESS) =>
          LET s == MaskedSlot(out')
              leading == Len(entries'[s].key) - Len(lpm_param(mk).key)
              bits == 8 * leading + lpm_param(mk).prefix_length
          IN /\ entries'[s].prefix_length = bits
             /\ has_prefix(entries_trie', entries'[s].key, bits)
             /\ \A k \in LookupKeys :
                  (lookup_key(k)'.found /\ ResultSlot(lookup_key(k)') = s)
                    => SubSeq(k, 1, leading) = SubSeq(entries'[s].key, 1, leading)
    ]_vars

\* C19: (taken for the exact and the ternary unit, whose operations the claim
\* names) a successful modify_entry(h, v) or delete_entry(h), for a handle h
\* that add_entry issued and whose entry has not been deleted, affects only
\* the entry in the slot h was issued for: modify_entry changes the value of
\* that entry and nothing else of the unit, so that every lookup that returned
\* another entry returns the same result; delete_entry releases that slot
\* only, and the stored entry and liveness of every other slot are unchanged.
C19_OnlyTheEntryOfTheHandle ==
  [][ \A h \in Outstanding :
        /\ \A v \in Values :
             ((ExactModifyEntry(h, v) \/ TernaryModifyEntry(h, v))
                /\ ret' = SUCCESS) =>
               /\ entries' = [entries EXCEPT ![MaskedSlot(h)].value = v]
               /\ UNCHANGED << handles, num_entries, entries_map, entries_trie >>
               /\ \A k \in LookupKeys :
                    (lookup_key(k).found
                     /\ ResultSlot(lookup_key(k)) # MaskedSlot(h))
                      => lookup_key(k)' = lookup_key(k)
        /\ ((ExactDeleteEntry(h) \/ TernaryDeleteEntry(h))
              /\ ret' = SUCCESS) =>
               /\ handles' = handles \ {MaskedSlot(h)}
               /\ \A s \in Slots \ {MaskedSlot(h)} : entries'[s] = entries[s]
    ]_vars

\* C20: ternary lookup_key(k) returns an entry whenever a live entry matches
\* k, whatever non-negative priority the entries were added with (0
\* included), and returns empty only when no live entry matches.
C20_TernaryLookupFindsAMatch ==
  variant = "Ternary" =>
    \A k \in LookupKeys : lookup_key(k).found <=> (Matching(k) # {})

\* --------------------------------------------- key canonicalisation alone
MaxParams == 3

\* parameters of one byte each
KeyParams ==
  { ExactParam(<< 170 >>), ExactParam(<< 187 >>), ValidParam(<< 1 >>),
    LpmParam(<< 192 >>, 2), TernaryParam(<< 128 >>, << 192 >>) }

ParamSeqs == UNION { [1 .. n -> KeyParams] : n \in 1 .. MaxParams }

\* the parameter types each add_entry goes through without a failed assertion,
\* for a unit whose nbytes_key is the number of bytes of the sequence
ExactAccepts(mk) == \A i \in 1 .. Len(mk) : mk[i].type \in {EXACT, VALID}

LPMAccepts(mk) ==
  /\ \A i \in 1 .. Len(mk) : mk[i].type \in {EXACT, VALID, LPM}
  /\ Cardinality(LPMParams(mk)) = 1

TernaryAccepts(mk) ==
  \A i \in 1 .. Len(mk) : mk[i].type \in {EXACT, VALID, LPM, TERNARY}

KeysInit ==
  /\ Constructed
  /\ arg \in ParamSeqs
  /\ res = << >>

\* the two loops of MatchUnitExact::add_entry
ExactBuildKey ==
  /\ variant = "Exact"
  /\ op = "init"
  /\ ExactAccepts(arg)
  /\ res' = ExactNewKey(arg)
  /\ op' = "build_key"
  /\ UNCHANGED << unit, ghost, race, arg, ret, out, last_deleted >>

\* the two loops of MatchUnitLPM::add_entry and the append after them
LPMBuildKey ==
  /\ variant = "LPM"
  /\ op = "init"
  /\ LPMAccepts(arg)
  /\ res' = LPMNewKey(arg)
  /\ op' = "build_key"
  /\ UNCHANGED << unit, ghost, race, arg, ret, out, last_deleted >>

\* the two loops of MatchUnitTernary::add_entry
TernaryBuildKey ==
  /\ variant = "Ternary"
  /\ op = "init"
  /\ TernaryAccepts(arg)
  /\ res' = TernaryNewKey(arg)
  /\ op' = "build_key"
  /\ UNCHANGED << unit, ghost, race, arg, ret, out, last_deleted >>

KeysNext == ExactBuildKey \/ LPMBuildKey \/ TernaryBuildKey

SpecKeys == KeysInit /\ [][KeysNext]_vars

IsValidParam(param) == param.type = VALID
IsExactParam(param) == param.type = EXACT
IsLpmParam(param) == param.type = LPM
IsOtherParam(param) == param.type # VALID

RECURSIVE KeyBytes(_)
\* the key bytes of a sequence of parameters, one after the other
KeyBytes(mk) ==
  IF mk = << >> THEN << >> ELSE Head(mk).key \o KeyBytes(Tail(mk))

\* the documented order: VALID parameters first, then the others, each group
\* in input order
ValidFirst(mk) ==
  KeyBytes(SelectSeq(mk, IsValidParam)) \o KeyBytes(SelectSeq(mk, IsOtherParam))

\* the order with the LPM parameter last
LpmLast(mk) ==
  KeyBytes(SelectSeq(mk, IsValidParam)) \o KeyBytes(SelectSeq(mk, IsExactParam))
    \o KeyBytes(SelectSeq(mk, IsLpmParam))

\* an EXACT parameter comes after the LPM parameter
ExactAfterLpm(mk) ==
  \E i, j \in 1 .. Len(mk) : i < j /\ mk[i].type = LPM /\ mk[j].type = EXACT

\* C18 as written: in every variant the key built from an accepted parameter
\* sequence is the key bytes of its VALID parameters in input order followed
\* by the key bytes of its other parameters in input order, and a sequence
\* that two variants accept gives the same key in both.
C18_OneOrderingDiscipline ==
  op = "build_key" =>
    /\ res = ValidFirst(arg)
    /\ ExactAccepts(arg) => res = ExactNewKey(arg)
    /\ LPMAccepts(arg) => res = LPMNewKey(arg)
    /\ TernaryAccepts(arg) => res = TernaryNewKey(arg)

\* C18 amended: the exact and the ternary unit build the key bytes of the
\* VALID parameters in input order followed by those of the other parameters
\* in input order; the LPM unit builds the VALID bytes, then the EXACT bytes
\* in input order, then the bytes of its LPM parameter last; a sequence that
\* two variants accept gives the same key in both unless one of them is the
\* LPM unit and an EXACT parameter follows the LPM parameter.
C18_OrderingWithLpmLast ==
  op = "build_key" =>
    /\ variant # "LPM" => res = ValidFirst(arg)
    /\ variant = "LPM" => res = LpmLast(arg)
    /\ (ExactAccepts(arg) /\ ~ ExactAfterLpm(arg)) => res = ExactNewKey(arg)
    /\ (LPMAccepts(arg) /\ ~ ExactAfterLpm(arg)) => res = LPMNewKey(arg)
    /\ (TernaryAccepts(arg) /\ ~ ExactAfterLpm(arg)) => res = TernaryNewKey(arg)

\* the LPM unit has built the key of a sequence in which an EXACT parameter
\* follows the LPM parameter and a VALID parameter is not the first
C18_Witness ==
  /\ op = "build_key"
  /\ variant = "LPM"
  /\ ExactAfterLpm(arg)
  /\ arg[1].type # VALID
  /\ \E i \in 1 .. Len(arg) : arg[i].type = VALID

\* ------------------------- delete_entry racing a handle check of a reader
\* values and priorities the writer adds entries with while readers run
RaceValue == "v1"
RacePriority == 1

\* the version test passing whatever the version is
VersionStatusLax(h) == SUCCESS

\* the version test of the handle check, once the slot was found live
VersionStatus(h) ==
  IF HANDLE_VERSION(h) # entries[HANDLE_INTERNAL(h)].version
  THEN EXPIRED_HANDLE ELSE SUCCESS

\* the writer is inside delete_entry
Writing == dpc # "idle"

\* add_entry of the writer, between two of its delete_entry calls
RaceAddEntry ==
  /\ ~ Writing
  /\ \/ \E mk \in ExactMatchKeys : ExactAddEntry(mk, RaceValue)
     \/ \E mk \in LPMMatchKeys : LPMAddEntry(mk, RaceValue)
     \/ \E mk \in TernaryMatchKeys : TernaryAddEntry(mk, RaceValue, RacePriority)

\* delete_entry(h): the handle check
DeleteCheck(h) ==
  /\ Running
  /\ ~ Writing
  /\ IF delete_status(variant, h) # SUCCESS
     THEN /\ Returns("delete_entry", delete_status(variant, h), NoHandle)
          /\ UNCHANGED << unit, ghost >>
     ELSE /\ entries[HANDLE_INTERNAL(h)].version < MaxVersion
          /\ dpc' = "checked"
          /\ dh' = h
          /\ UNCHANGED << unit, ghost, pure, op, ret, out, last_deleted,
                          rpc, rh, rafter, rret, bumped >>

\* delete_entry: entry.version += 1
DeleteBump ==
  /\ Running
  /\ dpc = "checked"
  /\ entries' = [entries EXCEPT ![HANDLE_INTERNAL(dh)].version =
                   BumpVersion(entries[HANDLE_INTERNAL(dh)].version)]
  /\ dpc' = "bumped"
  /\ bumped' = bumped \cup {dh}
  /\ UNCHANGED << variant, ndebug, handles, num_entries, entries_map,
                  entries_trie, ghost, pure, op, ret, out, last_deleted,
                  dh, rpc, rh, rafter, rret >>

\* delete_entry of the exact and the LPM unit: the entry leaves the index
DeleteUnindex ==
  /\ Running
  /\ dpc = "bumped"
  /\ variant # "Ternary"
  /\ LET entry == entries[HANDLE_INTERNAL(dh)]
         found == has_prefix(entries_trie, entry.key, entry.prefix_length)
     IN IF variant = "LPM" /\ ~ ndebug /\ ~ found
        THEN /\ op' = "delete_entry"
             /\ ret' = ABORTED
             /\ dpc' = "idle"
             /\ UNCHANGED << entries_map, entries_trie >>
        ELSE /\ entries_map' = IF variant = "Exact"
                               THEN MapErase(entries_map, entry.key)
                               ELSE entries_map
             /\ entries_trie' = IF variant = "LPM" /\ ~ ndebug
                                THEN delete_prefix(entries_trie, entry.key,
                                                   entry.prefix_length)
                                ELSE entries_trie
             /\ dpc' = "unindexed"
             /\ UNCHANGED << op, ret >>
  /\ UNCHANGED << variant, ndebug, handles, num_entries, entries, ghost, pure,
                  out, last_deleted, dh, rpc, rh, rafter, rret, bumped >>

\* delete_entry: return this->unset_handle(handle_)
DeleteRelease ==
  /\ Running
  /\ dpc = (IF variant = "Ternary" THEN "bumped" ELSE "unindexed")
  /\ LET handle_ == HANDLE_INTERNAL(dh)
     IN /\ handles' = handles \ {handle_}
        /\ num_entries' = DecEntries(num_entries)
        /\ op' = "delete_entry"
        /\ ret' = UnsetStatus(handle_)
        /\ NoteDelete(dh, handle_, entries[handle_].version - 1)
  /\ out' = NoHandle
  /\ last_deleted' = NoHandle
  /\ dpc' = "idle"
  /\ dh' = NoHandle
  /\ UNCHANGED << variant, ndebug, entries, entries_map, entries_trie, pure,
                  rpc, rh, rafter, rret, bumped >>

\* get_value(h) or modify_entry(h, v) on another thread: the liveness test
ReaderLive(h) ==
  /\ Running
  /\ rpc # "live"
  /\ rh' = h
  /\ rafter' = (h \in bumped)
  /\ IF valid_handle_(HANDLE_INTERNAL(h))
     THEN rpc' = "live" /\ rret' = SUCCESS
     ELSE rpc' = "returned" /\ rret' = INVALID_HANDLE
  /\ UNCHANGED << unit, ghost, pure, op, ret, out, last_deleted, dpc, dh,
                  bumped >>

\* the same call: the version test and the return
ReaderVersion ==
  /\ Running
  /\ rpc = "live"
  /\ rret' = VersionStatus(rh)
  /\ rpc' = "returned"
  /\ UNCHANGED << unit, ghost, pure, op, ret, out, last_deleted, dpc, dh,
                  rh, rafter, bumped >>

RaceNext ==
  \/ RaceAddEntry
  \/ \E h \in Handles : DeleteCheck(h)
  \/ DeleteBump
  \/ DeleteUnindex
  \/ DeleteRelease
  \/ \E h \in Handles : ReaderLive(h)
  \/ ReaderVersion

SpecRace == Init /\ [][RaceNext]_vars

\* the slot the delete_entry in progress works on
DeletedSlot == HANDLE_INTERNAL(dh)

====
